---- MODULE Spec2Model ----
(***************************************************************************)
(* The event store core of constellation (src/src/core/observability.ts):   *)
(* machine identity, ULID-style event ids, the event envelope, the          *)
(* append path into the `events` table and the filtered, ordered and        *)
(* paginated query.                                                         *)
(*                                                                          *)
(* Representation.                                                          *)
(*  - A string the code builds or takes apart character by character (an    *)
(*    event id, a tag, the joined tag column, the identity file) is a       *)
(*    sequence of UTF-16 code units; `<` on strings and SQLite's BINARY     *)
(*    collation are the lexicographic order StrLess.                        *)
(*  - A string the code only stores and compares for equality (a kind, a    *)
(*    session id) is a TLA+ string; Absent stands for JavaScript's          *)
(*    undefined / null and for SQL NULL in such a field, and None for the   *)
(*    same in a sequence-valued field.                                      *)
(*  - `ts` is the millisecond count that toISOString() prints: the printed  *)
(*    form has a fixed width, so its string order is the numeric order.     *)
(***************************************************************************)
EXTENDS Integers, Sequences, FiniteSets, TLC

\* ------------------------------------------------------------ bounds
\* Rows the events table may hold.
MaxEvents == 3
\* The last millisecond the clock reaches.
MaxClock == 3
\* Constructions of the store against the data directory, over all the
\* processes that run one after the other.
MaxResolutions == 3

\* --------------------------------------------------------- constants
\* generateULID pads the id to this width.
UlidWidth == 26
\* generateULID keeps this many hex characters of the random bytes.
RandomHexLen == 12

Absent == "<absent>"
None == [some |-> FALSE, v |-> <<>>]
Some(x) == [some |-> TRUE, v |-> x]

\* An optional number (a limit, an offset, a timestamp bound).
NoNum == [some |-> FALSE, v |-> 0]
SomeNum(n) == [some |-> TRUE, v |-> n]

\* JavaScript truthiness of an optional string and of an optional number:
\* undefined, "" and 0 are falsy.
TruthyStr(s) == s # Absent /\ s # ""
TruthyNum(o) == o.some /\ o.v # 0

\* A timestamp bound is a string, held by its millisecond; the empty
\* string, which sorts before every timestamp, is held as -1. It is falsy.
EmptyTs == SomeNum(-1)
TruthyTs(o) == o.some /\ o.v >= 0

Min(a, b) == IF a < b THEN a ELSE b

\* ----------------------------------------------------------- strings
\* Code unit of the digit d (0..35) as Number.prototype.toString(radix)
\* and Buffer.toString("hex") print it: '0'..'9', 'a'..'z'.
DigitChar(d) == IF d < 10 THEN 48 + d ELSE 97 + (d - 10)

\* String.prototype.toUpperCase on one code unit.
UpperChar(c) == IF c >= 97 /\ c <= 122 THEN c - 32 ELSE c

toUpperCase(s) == [i \in 1..Len(s) |-> UpperChar(s[i])]

\* n.toString(36): no leading zeros, "0" for 0.
RECURSIVE toString36(_)
toString36(n) ==
  IF n < 36 THEN <<DigitChar(n)>>
  ELSE toString36(n \div 36) \o <<DigitChar(n % 36)>>

\* The first w hex characters of the random bytes whose value is r.
RECURSIVE HexFixed(_, _)
HexFixed(r, w) ==
  IF w = 0 THEN <<>>
  ELSE HexFixed(r \div 16, w - 1) \o <<DigitChar(r % 16)>>

\* String.prototype.padStart(w, c).
padStart(s, w, c) ==
  IF Len(s) >= w THEN s ELSE [i \in 1..(w - Len(s)) |-> c] \o s

\* a < b on strings: lexicographic by code unit, a proper prefix first.
StrLess(a, b) ==
  \E k \in 1..(Min(Len(a), Len(b)) + 1) :
    /\ \A i \in 1..(k - 1) : a[i] = b[i]
    /\ IF k <= Min(Len(a), Len(b)) THEN a[k] < b[k]
       ELSE Len(a) < Len(b)

\* generateULID with Date.now() = now and random bytes of value random.
generateULID(now, random) ==
  padStart(toUpperCase(toString36(now) \o HexFixed(random, RandomHexLen)),
           UlidWidth, 48)

\* ------------------------------------------------------------- tags
Comma == 44

\* Array.prototype.join(","): the tags with a comma between neighbours.
RECURSIVE join(_)
join(tags) ==
  IF Len(tags) = 0 THEN <<>>
  ELSE IF Len(tags) = 1 THEN tags[1]
  ELSE tags[1] \o <<Comma>> \o join(Tail(tags))

\* String.prototype.split(","): the pieces between the commas of s.
RECURSIVE SplitFrom(_, _)
SplitFrom(s, cur) ==
  IF Len(s) = 0 THEN <<cur>>
  ELSE IF Head(s) = Comma THEN <<cur>> \o SplitFrom(Tail(s), <<>>)
  ELSE SplitFrom(Tail(s), Append(cur, Head(s)))

split(s) == SplitFrom(s, <<>>)

\* event.event.tags?.join(",") || null
TagsColumn(tags) ==
  IF ~tags.some THEN None
  ELSE IF join(tags.v) = <<>> THEN None
  ELSE Some(join(tags.v))

\* row.event_tags ? row.event_tags.split(",") : undefined
TagsOfColumn(col) ==
  IF col.some /\ col.v # <<>> THEN Some(split(col.v)) ELSE None

\* ------------------------------------------------------------- data
\* A payload is a sequence of <<key, value>> members; a value is
\* [t, n, s, cs, kids]: a number n, NaN, a boolean, a string s (or, when
\* the code also splits or joins it, its code units cs), undefined, null,
\* or an object with the members kids.
Value(t, n, s, cs, kids) == [t |-> t, n |-> n, s |-> s, cs |-> cs, kids |-> kids]
Num(n) == Value("num", n, "", <<>>, <<>>)
NaN == Value("nan", 0, "", <<>>, <<>>)
Bool(b) == Value("bool", IF b THEN 1 ELSE 0, "", <<>>, <<>>)
Str(s) == Value("str", 0, s, <<>>, <<>>)
Chars(cs) == Value("chars", 0, "", cs, <<>>)
Undefined == Value("undefined", 0, "", <<>>, <<>>)
Null == Value("null", 0, "", <<>>, <<>>)
Obj(members) == Value("obj", 0, "", <<>>, members)
\* An array of values, and a timestamp string (by its millisecond).
Arr(items) == Value("arr", 0, "", <<>>, items)
Ts(ms) == Value("ts", ms, "", <<>>, <<>>)
\* An optional string and an optional number as payload values.
OfStr(s) == IF s = Absent THEN Undefined ELSE Str(s)
OfNum(o) == IF o.some THEN Num(o.v) ELSE Undefined

\* JSON.parse(JSON.stringify(v)): a member whose value is undefined is
\* left out, NaN is written as null, everything else comes back as it was.
RECURSIVE JsonMembers(_)
RECURSIVE JsonItems(_)
JsonValue(v) ==
  IF v.t = "nan" THEN Null
  ELSE IF v.t = "obj" THEN Obj(JsonMembers(v.kids))
  ELSE IF v.t = "arr" THEN Arr(JsonItems(v.kids))
  ELSE v

\* The items of an array: an undefined item is written as null.
JsonItems(items) ==
  IF Len(items) = 0 THEN <<>>
  ELSE <<IF items[1].t = "undefined" THEN Null ELSE JsonValue(items[1])>>
       \o JsonItems(Tail(items))

JsonMembers(ms) ==
  IF Len(ms) = 0 THEN <<>>
  ELSE IF ms[1][2].t = "undefined" THEN JsonMembers(Tail(ms))
  ELSE <<<<ms[1][1], JsonValue(ms[1][2])>>>> \o JsonMembers(Tail(ms))

\* JSON.stringify(event.data): the text, held as the value it denotes.
JSONstringify(data) == JsonMembers(data)

\* JSON.parse(row.data)
JSONparse(text) == text

\* ------------------------------------------------------ environment
\* The values a draw of random bytes takes.
RandomBytes == {0, 1}
\* The milliseconds that pass between two reads of the clock.
ClockSteps == {0, 1}
\* What one write call meets: see WriteEventAs.
Envs == [wait : ClockSteps, elapsed : ClockSteps, random : RandomBytes]

\* ------------------------------------------------------- machine id
\* A machine id is a literal text followed by hex characters; NoId is the
\* empty string (an unset MACHINE_ID and an empty one are both falsy).
NoId == [text |-> "", hex |-> <<>>]
\* A machine_id filter that is not given, and the truthiness of one.
AbsentId == [text |-> Absent, hex |-> <<>>]
TruthyId(id) == id # AbsentId /\ id # NoId
MachineIdPrefix == "constellation-"
\* randomBytes(3).toString("hex").substring(0, 6)
MachineHexLen == 6
NewMachineId(random) == [text |-> MachineIdPrefix, hex |-> HexFixed(random, MachineHexLen)]
\* The identity file: absent, or its text with the white space around it.
NoFile == [exists |-> FALSE, lead |-> 0, id |-> NoId, trail |-> 0]
FileOf(id) == [exists |-> TRUE, lead |-> 0, id |-> id, trail |-> 0]
\* String.prototype.trim on the file's content.
trim(file) == file.id

\* ------------------------------------------------------------ state
VARIABLES
  clock,                  \* Date.now(), in milliseconds
  envMachineId,           \* process.env.MACHINE_ID (NoId: unset)
  machineIdFile,          \* <dataDir>/.machine_id
  observabilityInstance,  \* the module-level singleton and its fields
  events,                 \* the rows of table events, by rowid
  written,                \* the writeEvent calls that returned, in order: the
                          \* writer that made the call and its arguments, the
                          \* MACHINE_ID of the moment, what writeEvent was
                          \* given, the envelope it built, the id it returned
  resolved,               \* the constructions against the data directory that
                          \* resolved an identity, in order: MACHINE_ID and the
                          \* identity file each found, the id it resolved, the
                          \* file it left, the rows the table held, and whether
                          \* the constructor returned
  ret                     \* how the last accessor, write or query call ended

vars == <<clock, envMachineId, machineIdFile, observabilityInstance,
          events, written, resolved, ret>>

\* The directory `new Observability()` and initializeObservability() take
\* when none is given, and another one a caller may name.
DefaultDataDir == "data"
OtherDataDir == "tmp/run"

NoInstance ==
  [created |-> FALSE, machineId |-> NoId, closed |-> FALSE, dataDir |-> ""]
NoFilters ==
  [kind |-> Absent, session_id |-> Absent, machine_id |-> AbsentId,
   start_ts |-> NoNum, end_ts |-> NoNum, limit |-> NoNum, offset |-> NoNum]
\* A call's outcome: the operation, "ok" or "throw", the event id a write
\* returned, the filters and the list of a query, and the directory an
\* accessor was called for.
Returned(op, id) ==
  [op |-> op, status |-> "ok", id |-> id, filters |-> NoFilters, rows |-> <<>>,
   dataDir |-> ""]
Thrown(op) ==
  [op |-> op, status |-> "throw", id |-> <<>>, filters |-> NoFilters,
   rows |-> <<>>, dataDir |-> ""]
NoRet ==
  [op |-> "none", status |-> "none", id |-> <<>>, filters |-> NoFilters,
   rows |-> <<>>, dataDir |-> ""]

\* ------------------------------------------------------- constructor
\* A resolution that returns the generated id without writing the file.
initializeMachineIdUnsaved(env, file, random) ==
  IF env # NoId THEN [id |-> env, file |-> file]
  ELSE IF file.exists THEN [id |-> trim(file), file |-> file]
  ELSE [id |-> NewMachineId(random), file |-> file]

\* A resolution that looks at the file before it looks at MACHINE_ID.
initializeMachineIdFileFirst(env, file, random) ==
  IF file.exists THEN [id |-> trim(file), file |-> file]
  ELSE IF env # NoId THEN [id |-> env, file |-> file]
  ELSE [id |-> NewMachineId(random), file |-> FileOf(NewMachineId(random))]

\* A resolution that writes the id it resolved to the file in every branch.
initializeMachineIdSavingAll(env, file, random) ==
  IF env # NoId THEN [id |-> env, file |-> FileOf(env)]
  ELSE IF file.exists THEN [id |-> trim(file), file |-> FileOf(trim(file))]
  ELSE [id |-> NewMachineId(random), file |-> FileOf(NewMachineId(random))]

\* initializeMachineId: the override, else the file, else a new id that
\* is written to the file. The id and the file it leaves behind.
initializeMachineId(env, file, random) ==
  IF env # NoId THEN [id |-> env, file |-> file]
  ELSE IF file.exists THEN [id |-> trim(file), file |-> file]
  ELSE [id |-> NewMachineId(random), file |-> FileOf(NewMachineId(random))]

\* A schema set-up that starts from an empty table: DROP TABLE, then
\* CREATE TABLE.
initializeSchemaFresh(table) == <<>>

\* initializeSchema: CREATE TABLE IF NOT EXISTS (and the indexes) leaves a
\* table that is there, and its rows, as they are.
initializeSchema(table) == table

\* new Observability(dataDir) that returns: resolves the machine id, opens
\* the database and sets the schema up. The files of the model are those of
\* the directory the process works on.
Construct(dataDir, random) ==
  LET r == initializeMachineId(envMachineId, machineIdFile, random)
  IN /\ observabilityInstance' =
          [created |-> TRUE, machineId |-> r.id, closed |-> FALSE,
           dataDir |-> dataDir]
     /\ machineIdFile' = r.file
     /\ events' = initializeSchema(events)
     /\ resolved' = Append(resolved,
          [override |-> envMachineId, before |-> machineIdFile, id |-> r.id,
           after |-> r.file, rows |-> Len(events), ok |-> TRUE])

\* What the file system does to a construction: nothing, a failure where
\* the identity file is read or written, or a failure where the database
\* is opened and its schema set up.
NoFault == "none"
IdentityFault == "identity"
DatabaseFault == "database"
Faults == {NoFault, IdentityFault, DatabaseFault}

\* A failed construction that leaves the instance it was building in the
\* singleton.
ConstructOrThrowHalfSet(op, dataDir, fault) ==
  \E random \in RandomBytes :
    LET r == initializeMachineId(envMachineId, machineIdFile, random)
    IN IF fault = NoFault
       THEN /\ Construct(dataDir, random)
            /\ ret' = [Returned(op, <<>>) EXCEPT !.dataDir = dataDir]
       ELSE /\ Len(resolved) < MaxResolutions
            /\ observabilityInstance' =
                 [created |-> TRUE, machineId |-> r.id, closed |-> TRUE,
                  dataDir |-> dataDir]
            /\ machineIdFile' = r.file
            /\ resolved' = Append(resolved,
                 [override |-> envMachineId, before |-> machineIdFile,
                  id |-> r.id, after |-> r.file, rows |-> Len(events),
                  ok |-> FALSE])
            /\ ret' = [Thrown(op) EXCEPT !.dataDir = dataDir]
            /\ UNCHANGED events

\* observabilityInstance = new Observability(dataDir) in an accessor: the
\* assignment takes place only when the constructor returns. A failure in
\* initializeMachineId (it touches the file only without an override)
\* leaves everything as it was; a failure of the database comes after the
\* identity was resolved and, when generated, written.
ConstructOrThrow(op, dataDir, fault) ==
  \E random \in RandomBytes :
    LET r == initializeMachineId(envMachineId, machineIdFile, random)
    IN IF fault = NoFault
       THEN /\ Construct(dataDir, random)
            /\ ret' = [Returned(op, <<>>) EXCEPT !.dataDir = dataDir]
       ELSE IF fault = IdentityFault
       THEN /\ envMachineId = NoId
            /\ ret' = [Thrown(op) EXCEPT !.dataDir = dataDir]
            /\ UNCHANGED <<observabilityInstance, machineIdFile, events, resolved>>
       ELSE /\ Len(resolved) < MaxResolutions
            /\ machineIdFile' = r.file
            /\ resolved' = Append(resolved,
                 [override |-> envMachineId, before |-> machineIdFile,
                  id |-> r.id, after |-> r.file, rows |-> Len(events),
                  ok |-> FALSE])
            /\ ret' = [Thrown(op) EXCEPT !.dataDir = dataDir]
            /\ UNCHANGED <<observabilityInstance, events>>

\* An accessor: the singleton when it is set, else a construction.
Accessor(op, dataDir, fault) ==
  /\ IF observabilityInstance.created
     THEN /\ fault = NoFault
          /\ ret' = [Returned(op, <<>>) EXCEPT !.dataDir = dataDir]
          /\ UNCHANGED <<observabilityInstance, machineIdFile, events, resolved>>
     ELSE ConstructOrThrow(op, dataDir, fault)
  /\ UNCHANGED <<clock, envMachineId, written>>

\* An initializeObservability that opens a store for every directory it
\* is called with.
InitializeObservabilityPerDir(dataDir) ==
  /\ IF observabilityInstance.created /\ observabilityInstance.dataDir = dataDir
     THEN /\ ret' = [Returned("initializeObservability", <<>>) EXCEPT
                      !.dataDir = dataDir]
          /\ UNCHANGED <<observabilityInstance, machineIdFile, events, resolved>>
     ELSE ConstructOrThrow("initializeObservability", dataDir, NoFault)
  /\ UNCHANGED <<clock, envMachineId, written>>

\* initializeObservability(dataDir), the file system willing.
InitializeObservability(dataDir) ==
  Accessor("initializeObservability", dataDir, NoFault)

\* A getObservability that constructs again when the instance is closed.
GetObservabilityReopening ==
  /\ IF observabilityInstance.created /\ ~observabilityInstance.closed
     THEN /\ ret' = [Returned("getObservability", <<>>) EXCEPT
                      !.dataDir = DefaultDataDir]
          /\ UNCHANGED <<observabilityInstance, machineIdFile, events, resolved>>
     ELSE ConstructOrThrow("getObservability", DefaultDataDir, NoFault)
  /\ UNCHANGED <<clock, envMachineId, written>>

\* getObservability(), the file system willing.
GetObservability == Accessor("getObservability", DefaultDataDir, NoFault)

\* close()
Close ==
  /\ observabilityInstance.created
  /\ observabilityInstance' = [observabilityInstance EXCEPT !.closed = TRUE]
  /\ UNCHANGED <<clock, envMachineId, machineIdFile, events, written, resolved,
                 ret>>

\* The process ends and another starts on the same data directory: the
\* module is loaded anew, its singleton unset; the files stay.
Restart ==
  /\ observabilityInstance.created
  /\ Len(resolved) < MaxResolutions
  /\ observabilityInstance' = NoInstance
  /\ ret' = NoRet
  /\ UNCHANGED <<clock, envMachineId, machineIdFile, events, written, resolved>>

\* process.env.MACHINE_ID is set, changed or unset.
SetMachineIdEnv(id) ==
  /\ id # envMachineId
  /\ envMachineId' = id
  /\ UNCHANGED <<clock, machineIdFile, observabilityInstance, events, written,
                 resolved, ret>>

\* <dataDir>/.machine_id is deleted between two runs.
RemoveIdentityFile ==
  /\ machineIdFile.exists
  /\ machineIdFile' = NoFile
  /\ UNCHANGED <<clock, envMachineId, observabilityInstance, events, written,
                 resolved, ret>>

\* <dataDir>/.machine_id is overwritten by hand while the process runs.
ReplaceIdentityFile(file) ==
  /\ file # machineIdFile
  /\ machineIdFile' = file
  /\ UNCHANGED <<clock, envMachineId, observabilityInstance, events, written,
                 resolved, ret>>

\* getMachineId(): a read of the instance's field.
GetMachineId ==
  /\ observabilityInstance.created
  /\ UNCHANGED vars

\* ------------------------------------------------------- write path
\* The options object of writeEvent.
NoOptions ==
  [sessionId |-> Absent, actor |-> Absent, phase |-> Absent,
   component |-> Absent, tags |-> None, parentEventId |-> None,
   parentTraceId |-> Absent, parentSpanId |-> Absent]

\* An envelope whose machine id is resolved anew, from the setting and the
\* file as they are when the event is written.
createBaseEventLive(kind, data, options, ts, id, machineId) ==
  [schema_version |-> "1.0",
   ts |-> ts,
   event_id |-> id,
   machine |-> [id |-> initializeMachineId(envMachineId, machineIdFile, 0).id,
                hostname |-> Absent],
   context |-> [session_id |-> options.sessionId, actor |-> options.actor,
                phase |-> options.phase],
   event |-> [kind |-> kind, tags |-> options.tags],
   source |-> [component |-> options.component, version |-> Absent],
   data |-> data,
   parent |-> [event_id |-> options.parentEventId,
               trace_id |-> options.parentTraceId,
               span_id |-> options.parentSpanId]]

\* createBaseEvent, given the timestamp and the id its two calls return.
createBaseEvent(kind, data, options, ts, id, machineId) ==
  [schema_version |-> "1.0",
   ts |-> ts,
   event_id |-> id,
   machine |-> [id |-> machineId, hostname |-> Absent],
   context |-> [session_id |-> options.sessionId, actor |-> options.actor,
                phase |-> options.phase],
   event |-> [kind |-> kind, tags |-> options.tags],
   source |-> [component |-> options.component, version |-> Absent],
   data |-> data,
   parent |-> [event_id |-> options.parentEventId,
               trace_id |-> options.parentTraceId,
               span_id |-> options.parentSpanId]]

\* The bindings with the parent's id taken from a wrong position of the
\* sixteen: the event's own id.
RowOfParentMisbound(event) ==
  [schema_version |-> event.schema_version,
   ts |-> event.ts,
   event_id |-> event.event_id,
   machine_id |-> event.machine.id,
   machine_hostname |-> event.machine.hostname,
   context_session_id |-> event.context.session_id,
   context_actor |-> event.context.actor,
   context_phase |-> event.context.phase,
   event_kind |-> event.event.kind,
   event_tags |-> TagsColumn(event.event.tags),
   source_component |-> event.source.component,
   source_version |-> event.source.version,
   data |-> JSONstringify(event.data),
   parent_event_id |-> Some(event.event_id),
   parent_trace_id |-> event.parent.trace_id,
   parent_span_id |-> event.parent.span_id]

\* The bindings with actor and phase in each other's position.
RowOfContextSwapped(event) ==
  [schema_version |-> event.schema_version,
   ts |-> event.ts,
   event_id |-> event.event_id,
   machine_id |-> event.machine.id,
   machine_hostname |-> event.machine.hostname,
   context_session_id |-> event.context.session_id,
   context_actor |-> event.context.phase,
   context_phase |-> event.context.actor,
   event_kind |-> event.event.kind,
   event_tags |-> TagsColumn(event.event.tags),
   source_component |-> event.source.component,
   source_version |-> event.source.version,
   data |-> JSONstringify(event.data),
   parent_event_id |-> event.parent.event_id,
   parent_trace_id |-> event.parent.trace_id,
   parent_span_id |-> event.parent.span_id]

\* The values writeEventToDb binds to the columns of the INSERT.
RowOf(event) ==
  [schema_version |-> event.schema_version,
   ts |-> event.ts,
   event_id |-> event.event_id,
   machine_id |-> event.machine.id,
   machine_hostname |-> event.machine.hostname,
   context_session_id |-> event.context.session_id,
   context_actor |-> event.context.actor,
   context_phase |-> event.context.phase,
   event_kind |-> event.event.kind,
   event_tags |-> TagsColumn(event.event.tags),
   source_component |-> event.source.component,
   source_version |-> event.source.version,
   data |-> JSONstringify(event.data),
   parent_event_id |-> event.parent.event_id,
   parent_trace_id |-> event.parent.trace_id,
   parent_span_id |-> event.parent.span_id]

\* An INSERT into a table declared without the PRIMARY KEY.
InsertRowNoKey(table, row) == [ok |-> TRUE, table |-> Append(table, row)]

\* INSERT OR REPLACE: a row with the same event_id is dropped for the new one.
InsertOrReplace(table, row) ==
  [ok |-> TRUE,
   table |-> Append(SelectSeq(table, LAMBDA r : r.event_id # row.event_id), row)]

\* An INSERT that, on a row whose event_id is in the table, reports the
\* failure and stores the row under another id: the id with a mark added.
InsertRowRetried(table, row) ==
  IF \E i \in 1..Len(table) : table[i].event_id = row.event_id
  THEN [ok |-> FALSE,
        table |-> Append(table, [row EXCEPT !.event_id = Append(@, 45)])]
  ELSE [ok |-> TRUE, table |-> Append(table, row)]

\* An INSERT that reports success while the row waits to be flushed.
InsertRowDeferred(table, row) ==
  IF \E i \in 1..Len(table) : table[i].event_id = row.event_id
  THEN [ok |-> FALSE, table |-> table]
  ELSE [ok |-> TRUE, table |-> table]

\* The INSERT into a table whose event_id is the PRIMARY KEY: it fails on
\* a row whose event_id is in the table, and else adds the row at the end.
InsertRow(table, row) ==
  IF \E i \in 1..Len(table) : table[i].event_id = row.event_id
  THEN [ok |-> FALSE, table |-> table]
  ELSE [ok |-> TRUE, table |-> Append(table, row)]

\* writeEventToDb
writeEventToDb(table, event) == InsertRow(table, RowOf(event))

\* options.component || "constellation"
ComponentOrDefault(component) ==
  IF TruthyStr(component) THEN component ELSE "constellation"

\* A write path that a closed database does not stop.
WriteEventAsOpen(op, args, kind, data, options, env) ==
  /\ observabilityInstance.created
  /\ Len(events) < MaxEvents
  /\ clock + env.wait + env.elapsed <= MaxClock
  /\ clock' = clock + env.wait + env.elapsed
  /\ LET event == createBaseEvent(kind, data,
                    [options EXCEPT !.component = ComponentOrDefault(@)],
                    clock + env.wait,
                    generateULID(clock + env.wait + env.elapsed, env.random),
                    observabilityInstance.machineId)
         done == writeEventToDb(events, event)
     IN IF done.ok
        THEN /\ events' = done.table
             /\ written' = Append(written,
                  [op |-> op, args |-> args, setting |-> envMachineId,
                   kind |-> kind, data |-> data, options |-> options,
                   event |-> event, id |-> event.event_id])
             /\ ret' = Returned(op, event.event_id)
        ELSE /\ events' = done.table
             /\ UNCHANGED written
             /\ ret' = Thrown(op)
  /\ UNCHANGED <<envMachineId, machineIdFile, observabilityInstance, resolved>>

\* writeEvent(kind, data, options), called as `op` (its own name, or the
\* typed writer that calls it). The run gives `env`: the milliseconds
\* since the clock was last read (wait), those between createBaseEvent's
\* read of the clock for ts and generateULID's read for the id (elapsed),
\* and the random bytes. A closed database makes db.prepare throw; a failed
\* INSERT throws.
WriteEventAs(op, args, kind, data, options, env) ==
  /\ observabilityInstance.created
  /\ Len(events) < MaxEvents
  /\ clock + env.wait + env.elapsed <= MaxClock
  /\ clock' = clock + env.wait + env.elapsed
  /\ LET event == createBaseEvent(kind, data,
                    [options EXCEPT !.component = ComponentOrDefault(@)],
                    clock + env.wait,
                    generateULID(clock + env.wait + env.elapsed, env.random),
                    observabilityInstance.machineId)
         done == writeEventToDb(events, event)
     IN IF observabilityInstance.closed
        THEN /\ ret' = Thrown(op)
             /\ UNCHANGED <<events, written>>
        ELSE IF done.ok
        THEN /\ events' = done.table
             /\ written' = Append(written,
                  [op |-> op, args |-> args, setting |-> envMachineId,
                   kind |-> kind, data |-> data, options |-> options,
                   event |-> event, id |-> event.event_id])
             /\ ret' = Returned(op, event.event_id)
        ELSE /\ events' = done.table
             /\ UNCHANGED written
             /\ ret' = Thrown(op)
  /\ UNCHANGED <<envMachineId, machineIdFile, observabilityInstance, resolved>>

writeEvent(kind, data, options, env) ==
  WriteEventAs("writeEvent", [kind |-> kind], kind, data, options, env)

\* A payload that takes result and duration_ms by their truthiness.
ToolExecuteDataTruthy(toolName, args, phase, options) ==
  <<<<"tool_name", Str(toolName)>>, <<"args", args>>,
    <<"context_session_id", OfStr(options.sessionId)>>,
    <<"context_agent", OfStr(options.agent)>>,
    <<"phase", Str(phase)>>>>
  \o (IF phase = "after" /\ options.result.t \notin {"undefined", "null"}
      THEN <<<<"result", options.result>>>> ELSE <<>>)
  \o (IF phase = "after" /\ TruthyNum(options.duration_ms)
      THEN <<<<"duration_ms", Num(options.duration_ms.v)>>>> ELSE <<>>)
  \o (IF TruthyStr(options.error)
      THEN <<<<"error", Str(options.error)>>>> ELSE <<>>)

\* writeToolExecute(toolName, args, phase, options)
ToolExecuteData(toolName, args, phase, options) ==
  <<<<"tool_name", Str(toolName)>>, <<"args", args>>,
    <<"context_session_id", OfStr(options.sessionId)>>,
    <<"context_agent", OfStr(options.agent)>>,
    <<"phase", Str(phase)>>>>
  \o (IF phase = "after" /\ options.result.t # "undefined"
      THEN <<<<"result", options.result>>>> ELSE <<>>)
  \o (IF phase = "after" /\ options.duration_ms.some
      THEN <<<<"duration_ms", Num(options.duration_ms.v)>>>> ELSE <<>>)
  \o (IF TruthyStr(options.error)
      THEN <<<<"error", Str(options.error)>>>> ELSE <<>>)

NoToolOptions ==
  [sessionId |-> Absent, agent |-> Absent, result |-> Undefined,
   duration_ms |-> NoNum, error |-> Absent, parentEventId |-> None,
   parentTraceId |-> Absent, parentSpanId |-> Absent]

writeToolExecute(toolName, args, phase, options, env) ==
  WriteEventAs("writeToolExecute",
    [toolName |-> toolName, phase |-> phase, options |-> options],
    "constellation:tool_execute",
    ToolExecuteData(toolName, args, phase, options),
    [NoOptions EXCEPT !.sessionId = options.sessionId,
                      !.component = "tool-executor",
                      !.phase = phase,
                      !.parentEventId = options.parentEventId,
                      !.parentTraceId = options.parentTraceId,
                      !.parentSpanId = options.parentSpanId],
    env)

\* writeError(errorType, message, options); errorType is given by its
\* code units, as it also becomes a tag.
ErrorTag == <<101, 114, 114, 111, 114>>

ErrorData(errorType, message, options) ==
  <<<<"error_type", Chars(errorType)>>, <<"message", Str(message)>>,
    <<"context_session_id", OfStr(options.sessionId)>>,
    <<"retryable", Bool(options.retryable)>>,
    <<"transient", Bool(options.transient)>>>>
  \o (IF TruthyStr(options.errorCode)
      THEN <<<<"error_code", Str(options.errorCode)>>>> ELSE <<>>)
  \o (IF TruthyStr(options.toolName)
      THEN <<<<"tool_name", Str(options.toolName)>>>> ELSE <<>>)

NoErrorOptions ==
  [sessionId |-> Absent, retryable |-> FALSE, transient |-> FALSE,
   errorCode |-> Absent, toolName |-> Absent, parentEventId |-> None,
   parentTraceId |-> Absent, parentSpanId |-> Absent]

writeError(errorType, message, options, env) ==
  WriteEventAs("writeError", [options |-> options], "error",
    ErrorData(errorType, message, options),
    [NoOptions EXCEPT !.sessionId = options.sessionId,
                      !.component = "error-handler",
                      !.tags = Some(<<ErrorTag, errorType>>),
                      !.parentEventId = options.parentEventId,
                      !.parentTraceId = options.parentTraceId,
                      !.parentSpanId = options.parentSpanId],
    env)

\* writeAgentSpawned(agentName, parentSessionId, childSessionId, options)
AgentSpawnedData(agentName, parentSessionId, childSessionId, options) ==
  <<<<"agent_name", Str(agentName)>>,
    <<"parent_session_id", Str(parentSessionId)>>,
    <<"child_session_id", Str(childSessionId)>>,
    <<"agent_mode", Str(IF TruthyStr(options.agentMode)
                        THEN options.agentMode ELSE "subagent")>>>>
  \o (IF TruthyStr(options.model)
      THEN <<<<"model", Str(options.model)>>>> ELSE <<>>)
  \o (IF options.toolsEnabled.some
      THEN <<<<"tools_enabled", Arr(options.toolsEnabled.v)>>>> ELSE <<>>)

NoAgentOptions ==
  [agentMode |-> Absent, model |-> Absent, toolsEnabled |-> None,
   parentEventId |-> None, parentTraceId |-> Absent, parentSpanId |-> Absent]

\* An agent_spawned event filed under the session of the child.
writeAgentSpawnedUnderChild(agentName, parentSessionId, childSessionId, options, env) ==
  WriteEventAs("writeAgentSpawned",
    [parentSessionId |-> parentSessionId, childSessionId |-> childSessionId,
     options |-> options],
    "constellation:agent_spawned",
    AgentSpawnedData(agentName, parentSessionId, childSessionId, options),
    [NoOptions EXCEPT !.sessionId = childSessionId,
                      !.component = "agent-manager",
                      !.parentEventId = options.parentEventId,
                      !.parentTraceId = options.parentTraceId,
                      !.parentSpanId = options.parentSpanId],
    env)

writeAgentSpawned(agentName, parentSessionId, childSessionId, options, env) ==
  WriteEventAs("writeAgentSpawned",
    [parentSessionId |-> parentSessionId, childSessionId |-> childSessionId,
     options |-> options],
    "constellation:agent_spawned",
    AgentSpawnedData(agentName, parentSessionId, childSessionId, options),
    [NoOptions EXCEPT !.sessionId = parentSessionId,
                      !.component = "agent-manager",
                      !.parentEventId = options.parentEventId,
                      !.parentTraceId = options.parentTraceId,
                      !.parentSpanId = options.parentSpanId],
    env)

\* writeSpan(spanId, name, status, options); `now` is the clock it reads
\* for start_ts when options.startTs is not given.
SpanData(spanId, name, status, options, now) ==
  <<<<"span_id", Str(spanId)>>, <<"name", Str(name)>>,
    <<"status", Str(status)>>,
    <<"start_ts", Ts(IF options.startTs.some THEN options.startTs.v ELSE now)>>,
    <<"context_session_id", OfStr(options.sessionId)>>>>
  \o (IF TruthyStr(options.parentSpanId)
      THEN <<<<"parent_span_id", Str(options.parentSpanId)>>>> ELSE <<>>)
  \o (IF TruthyStr(options.traceId)
      THEN <<<<"trace_id", Str(options.traceId)>>>> ELSE <<>>)
  \o (IF options.endTs.some
      THEN <<<<"end_ts", Ts(options.endTs.v)>>>> ELSE <<>>)
  \o (IF options.duration_ms.some
      THEN <<<<"duration_ms", Num(options.duration_ms.v)>>>> ELSE <<>>)

NoSpanOptions ==
  [sessionId |-> Absent, parentSpanId |-> Absent, traceId |-> Absent,
   startTs |-> NoNum, endTs |-> NoNum, duration_ms |-> NoNum,
   parentEventId |-> None, parentTraceId |-> Absent]

writeSpan(spanId, name, status, options, env) ==
  WriteEventAs("writeSpan", [options |-> options], "span",
    SpanData(spanId, name, status, options, clock + env.wait),
    [NoOptions EXCEPT !.sessionId = options.sessionId,
                      !.component = "span-manager",
                      !.parentEventId = options.parentEventId,
                      !.parentTraceId = options.parentTraceId,
                      !.parentSpanId = options.parentSpanId],
    env)

\* An optional object is taken when it is truthy: neither undefined nor
\* null.
TruthyObject(v) == v.t \notin {"undefined", "null"}

\* The parent linkage every typed writer hands on.
WithParent(base, options) ==
  [base EXCEPT !.parentEventId = options.parentEventId,
               !.parentTraceId = options.parentTraceId,
               !.parentSpanId = options.parentSpanId]

\* writeHookFired(hookName, pluginName, options)
HookFiredData(hookName, pluginName, options) ==
  <<<<"hook_name", Str(hookName)>>, <<"plugin_name", Str(pluginName)>>,
    <<"context_session_id", OfStr(options.sessionId)>>>>
  \o (IF TruthyObject(options.eventPayload)
      THEN <<<<"event_payload", options.eventPayload>>>> ELSE <<>>)
  \o (IF options.duration_ms.some
      THEN <<<<"duration_ms", Num(options.duration_ms.v)>>>> ELSE <<>>)

NoHookOptions ==
  [sessionId |-> Absent, eventPayload |-> Undefined, duration_ms |-> NoNum,
   parentEventId |-> None, parentTraceId |-> Absent, parentSpanId |-> Absent]

writeHookFired(hookName, pluginName, options, env) ==
  WriteEventAs("writeHookFired", [options |-> options],
    "constellation:hook_fired",
    HookFiredData(hookName, pluginName, options),
    WithParent([NoOptions EXCEPT !.sessionId = options.sessionId,
                                 !.component = "hook-system"], options),
    env)

\* writeSkillLoaded(skillName, skillPath, options)
SkillLoadedData(skillName, skillPath, options) ==
  <<<<"skill_name", Str(skillName)>>, <<"skill_path", Str(skillPath)>>,
    <<"context_session_id", OfStr(options.sessionId)>>,
    <<"context_agent", OfStr(options.agent)>>>>

NoSkillOptions ==
  [sessionId |-> Absent, agent |-> Absent, parentEventId |-> None,
   parentTraceId |-> Absent, parentSpanId |-> Absent]

writeSkillLoaded(skillName, skillPath, options, env) ==
  WriteEventAs("writeSkillLoaded", [options |-> options],
    "constellation:skill_loaded",
    SkillLoadedData(skillName, skillPath, options),
    WithParent([NoOptions EXCEPT !.sessionId = options.sessionId,
                                 !.component = "skill-loader"], options),
    env)

\* writeCommandExecuted(commandName, options)
CommandExecutedData(commandName, options) ==
  <<<<"command_name", Str(commandName)>>,
    <<"context_session_id", OfStr(options.sessionId)>>>>
  \o (IF options.args.some
      THEN <<<<"args", Arr(options.args.v)>>>> ELSE <<>>)
  \o (IF options.duration_ms.some
      THEN <<<<"duration_ms", Num(options.duration_ms.v)>>>> ELSE <<>>)
  \o (IF TruthyStr(options.result)
      THEN <<<<"result", Str(options.result)>>>> ELSE <<>>)

NoCommandOptions ==
  [sessionId |-> Absent, args |-> None, duration_ms |-> NoNum,
   result |-> Absent, parentEventId |-> None, parentTraceId |-> Absent,
   parentSpanId |-> Absent]

writeCommandExecuted(commandName, options, env) ==
  WriteEventAs("writeCommandExecuted", [options |-> options],
    "constellation:command_executed",
    CommandExecutedData(commandName, options),
    WithParent([NoOptions EXCEPT !.sessionId = options.sessionId,
                                 !.component = "command-runner"], options),
    env)

\* writePluginEvent(pluginName, eventType, options)
PluginEventData(pluginName, eventType, options) ==
  <<<<"plugin_name", Str(pluginName)>>, <<"event_type", Str(eventType)>>,
    <<"context_session_id", OfStr(options.sessionId)>>>>
  \o (IF TruthyObject(options.eventData)
      THEN <<<<"event_data", options.eventData>>>> ELSE <<>>)

NoPluginOptions ==
  [sessionId |-> Absent, eventData |-> Undefined, parentEventId |-> None,
   parentTraceId |-> Absent, parentSpanId |-> Absent]

writePluginEvent(pluginName, eventType, options, env) ==
  WriteEventAs("writePluginEvent", [options |-> options],
    "constellation:plugin_event",
    PluginEventData(pluginName, eventType, options),
    WithParent([NoOptions EXCEPT !.sessionId = options.sessionId,
                                 !.component = "plugin-manager"], options),
    env)

\* writeMetric(metricName, value, unit, options)
MetricData(metricName, value, unit, options) ==
  <<<<"metric_name", Str(metricName)>>, <<"value", Num(value)>>,
    <<"unit", Str(unit)>>,
    <<"context_session_id", OfStr(options.sessionId)>>>>
  \o (IF TruthyObject(options.dimensions)
      THEN <<<<"dimensions", options.dimensions>>>> ELSE <<>>)

NoMetricOptions ==
  [sessionId |-> Absent, dimensions |-> Undefined, parentEventId |-> None,
   parentTraceId |-> Absent, parentSpanId |-> Absent]

writeMetric(metricName, value, unit, options, env) ==
  WriteEventAs("writeMetric", [options |-> options], "metric",
    MetricData(metricName, value, unit, options),
    WithParent([NoOptions EXCEPT !.sessionId = options.sessionId,
                                 !.component = "metrics"], options),
    env)

\* writeSessionStart(sessionId, options)
SessionStartData(sessionId, options) ==
  <<<<"session_id", Str(sessionId)>>>>
  \o (IF TruthyStr(options.agent)
      THEN <<<<"agent", Str(options.agent)>>>> ELSE <<>>)
  \o (IF TruthyStr(options.model)
      THEN <<<<"model", Str(options.model)>>>> ELSE <<>>)
  \o (IF TruthyStr(options.directory)
      THEN <<<<"directory", Str(options.directory)>>>> ELSE <<>>)
  \o (IF TruthyStr(options.parentSessionId)
      THEN <<<<"parent_session_id", Str(options.parentSessionId)>>>> ELSE <<>>)

NoSessionStartOptions ==
  [agent |-> Absent, model |-> Absent, directory |-> Absent,
   parentSessionId |-> Absent, parentEventId |-> None,
   parentTraceId |-> Absent, parentSpanId |-> Absent]

writeSessionStart(sessionId, options, env) ==
  WriteEventAs("writeSessionStart",
    [sessionId |-> sessionId, options |-> options], "session_start",
    SessionStartData(sessionId, options),
    WithParent([NoOptions EXCEPT !.sessionId = sessionId,
                                 !.component = "session-manager"], options),
    env)

\* writeSessionEnd(sessionId, options)
SessionEndData(sessionId, options) ==
  <<<<"session_id", Str(sessionId)>>>>
  \o (IF options.duration_ms.some
      THEN <<<<"duration_ms", Num(options.duration_ms.v)>>>> ELSE <<>>)
  \o (IF options.messageCount.some
      THEN <<<<"message_count", Num(options.messageCount.v)>>>> ELSE <<>>)

NoSessionEndOptions ==
  [duration_ms |-> NoNum, messageCount |-> NoNum, parentEventId |-> None,
   parentTraceId |-> Absent, parentSpanId |-> Absent]

writeSessionEnd(sessionId, options, env) ==
  WriteEventAs("writeSessionEnd",
    [sessionId |-> sessionId, options |-> options], "session_end",
    SessionEndData(sessionId, options),
    WithParent([NoOptions EXCEPT !.sessionId = sessionId,
                                 !.component = "session-manager"], options),
    env)

\* writeSessionSummary(sessionId, summary, options)
SessionSummaryData(sessionId, summary) ==
  <<<<"session_id", Str(sessionId)>>, <<"summary", Str(summary)>>>>

NoSummaryOptions ==
  [parentEventId |-> None, parentTraceId |-> Absent, parentSpanId |-> Absent]

writeSessionSummary(sessionId, summary, options, env) ==
  WriteEventAs("writeSessionSummary",
    [sessionId |-> sessionId, options |-> options], "session_summary",
    SessionSummaryData(sessionId, summary),
    WithParent([NoOptions EXCEPT !.sessionId = sessionId,
                                 !.component = "session-manager"], options),
    env)

\* -------------------------------------------------------- query path
\* A WHERE clause that joins the conditions with OR: the union of the
\* single-filter results (everything when no filter is given).
MatchesAny(row, filters) ==
  \/ TruthyStr(filters.kind) /\ row.event_kind = filters.kind
  \/ TruthyStr(filters.session_id) /\ row.context_session_id = filters.session_id
  \/ TruthyId(filters.machine_id) /\ row.machine_id = filters.machine_id
  \/ TruthyTs(filters.start_ts) /\ row.ts >= filters.start_ts.v
  \/ TruthyTs(filters.end_ts) /\ row.ts <= filters.end_ts.v
  \/ ~(\/ TruthyStr(filters.kind) \/ TruthyStr(filters.session_id)
       \/ TruthyId(filters.machine_id)
       \/ TruthyTs(filters.start_ts) \/ TruthyTs(filters.end_ts))

\* A WHERE clause with ts > ? and ts < ? for the two bounds.
MatchesWithin(row, filters) ==
  /\ TruthyStr(filters.kind) => row.event_kind = filters.kind
  /\ TruthyStr(filters.session_id) =>
       row.context_session_id # Absent
       /\ row.context_session_id = filters.session_id
  /\ TruthyId(filters.machine_id) => row.machine_id = filters.machine_id
  /\ TruthyTs(filters.start_ts) => row.ts > filters.start_ts.v
  /\ TruthyTs(filters.end_ts) => row.ts < filters.end_ts.v

\* A WHERE clause with one conjunct per filter that is given (not
\* undefined), the empty ones among them.
MatchesDefined(row, filters) ==
  /\ filters.kind # Absent => row.event_kind = filters.kind
  /\ filters.session_id # Absent =>
       row.context_session_id # Absent
       /\ row.context_session_id = filters.session_id
  /\ filters.machine_id # AbsentId => row.machine_id = filters.machine_id
  /\ filters.start_ts.some => row.ts >= filters.start_ts.v
  /\ filters.end_ts.some => row.ts <= filters.end_ts.v

\* The WHERE clause queryEvents builds: one conjunct per truthy filter.
\* A comparison with a NULL column is never true.
Matches(row, filters) ==
  /\ TruthyStr(filters.kind) => row.event_kind = filters.kind
  /\ TruthyStr(filters.session_id) =>
       row.context_session_id # Absent
       /\ row.context_session_id = filters.session_id
  /\ TruthyId(filters.machine_id) => row.machine_id = filters.machine_id
  /\ TruthyTs(filters.start_ts) => row.ts >= filters.start_ts.v
  /\ TruthyTs(filters.end_ts) => row.ts <= filters.end_ts.v

\* The rowids the WHERE clause selects.
Where(table, filters) == {i \in 1..Len(table) : Matches(table[i], filters)}

\* ORDER BY ts ASC: the arrangements in which ts never falls.
RECURSIVE OrderByTsAsc(_, _)
OrderByTsAsc(table, rowids) ==
  IF rowids = {} THEN {<<>>}
  ELSE UNION {{<<i>> \o rest : rest \in OrderByTsAsc(table, rowids \ {i})} :
                i \in {i \in rowids : \A j \in rowids : table[i].ts <= table[j].ts}}

\* ORDER BY ts DESC: every arrangement of the selected rows in which ts
\* never rises; SQL leaves the order of rows with equal ts open. The
\* first row is any row of the greatest ts, the rest follow likewise.
RECURSIVE OrderByTsDesc(_, _)
OrderByTsDesc(table, rowids) ==
  IF rowids = {} THEN {<<>>}
  ELSE UNION {{<<i>> \o rest : rest \in OrderByTsDesc(table, rowids \ {i})} :
                i \in {i \in rowids : \A j \in rowids : table[i].ts >= table[j].ts}}

\* LIMIT ? OFFSET ? as queryEvents appends them: each only when truthy.
LimitOffset(s, filters) ==
  LET skip == IF TruthyNum(filters.offset) THEN filters.offset.v ELSE 0
      last == IF TruthyNum(filters.limit)
              THEN Min(Len(s), skip + filters.limit.v) ELSE Len(s)
  IN SubSeq(s, skip + 1, last)

\* "... ORDER BY ts DESC OFFSET ?" is not a statement SQLite accepts: an
\* OFFSET needs a LIMIT before it, and db.prepare throws.
PrepareFails(filters) == TruthyNum(filters.offset) /\ ~TruthyNum(filters.limit)

\* The envelope queryEvents maps a row to.
EventOfRow(row) ==
  [schema_version |-> row.schema_version,
   ts |-> row.ts,
   event_id |-> row.event_id,
   machine |-> [id |-> row.machine_id, hostname |-> row.machine_hostname],
   context |-> [session_id |-> row.context_session_id,
                actor |-> row.context_actor, phase |-> row.context_phase],
   event |-> [kind |-> row.event_kind, tags |-> TagsOfColumn(row.event_tags)],
   source |-> [component |-> row.source_component,
               version |-> row.source_version],
   data |-> JSONparse(row.data),
   parent |-> [event_id |-> row.parent_event_id,
               trace_id |-> row.parent_trace_id,
               span_id |-> row.parent_span_id]]

\* Every list queryEvents(filters) can return on the table.
QueryResults(table, filters) ==
  {[i \in 1..Len(LimitOffset(s, filters)) |->
      EventOfRow(table[LimitOffset(s, filters)[i]])] :
     s \in OrderByTsDesc(table, Where(table, filters))}

\* queryEvents(filters)
queryEvents(filters) ==
  /\ observabilityInstance.created
  /\ IF observabilityInstance.closed \/ PrepareFails(filters)
     THEN ret' = [Thrown("queryEvents") EXCEPT !.filters = filters]
     ELSE \E rows \in QueryResults(events, filters) :
            ret' = [Returned("queryEvents", <<>>) EXCEPT
                      !.filters = filters, !.rows = rows]
  /\ UNCHANGED <<clock, envMachineId, machineIdFile, observabilityInstance,
                 events, written, resolved>>

\* ---------------------------------------------------- specifications
\* A MACHINE_ID a deployment may set.
EnvId == [text |-> "ci-runner", hex |-> <<>>]

\* A fresh data directory and a process that has not touched the store;
\* MACHINE_ID set or not.
Init ==
  /\ clock = 0
  /\ envMachineId \in {NoId, EnvId}
  /\ machineIdFile = NoFile
  /\ observabilityInstance = NoInstance
  /\ events = <<>>
  /\ written = <<>>
  /\ resolved = <<>>
  /\ ret = NoRet

\* The parent a caller threads: none, or the id its last successful write
\* returned.
ParentChoices ==
  {None} \cup (IF Len(written) > 0 THEN {Some(written[Len(written)].id)} ELSE {})

FlatData == <<<<"value", Num(1)>>>>
NestedData == <<<<"value", Num(1)>>, <<"dimensions", Obj(<<<<"region", Str("eu")>>>>)>>>>

\* A call in the millisecond after the last one.
NextMs == [wait |-> 1, elapsed |-> 0, random |-> 0]

\* Every operation of the core: the accessors, close, getMachineId, the
\* generic writer under every run of the clock and the random bytes, two
\* typed writers, and the query.
Next ==
  \/ InitializeObservability(DefaultDataDir)
  \/ GetObservability
  \/ Close
  \/ GetMachineId
  \/ \E env \in Envs : writeEvent("metric", FlatData, NoOptions, env)
  \/ writeToolExecute("db-query", Obj(<<>>), "after",
       [NoToolOptions EXCEPT !.sessionId = "S1", !.duration_ms = SomeNum(45)],
       NextMs)
  \/ writeError(<<69>>, "boom", NoErrorOptions, NextMs)
  \/ \E limit \in {NoNum, SomeNum(1)} :
       queryEvents([NoFilters EXCEPT !.limit = limit])

Spec == Init /\ [][Next]_vars

\* The store's write contract: the generic writer with and without the
\* optional fields and a threaded parent, in the same millisecond as the
\* last call (the same random bytes: a repeated id) or in the next, and a
\* reader.
FullOptions ==
  [sessionId |-> "S1", actor |-> "planner", phase |-> "plan",
   component |-> "scheduler", tags |-> Some(<<<<97>>, <<98>>>>),
   parentEventId |-> None, parentTraceId |-> "T1", parentSpanId |-> "P1"]

WriteChoices ==
  {[kind |-> "metric", data |-> FlatData, options |-> NoOptions],
   [kind |-> "log", data |-> NestedData, options |-> FullOptions]}

SameMs == [wait |-> 0, elapsed |-> 0, random |-> 0]

NextWrite ==
  \/ GetObservability
  \/ \E c \in WriteChoices, parent \in ParentChoices, env \in {SameMs, NextMs} :
       writeEvent(c.kind, c.data, [c.options EXCEPT !.parentEventId = parent], env)
  \/ \E kind \in {Absent, "log"}, session \in {Absent, "S1"} :
       queryEvents([NoFilters EXCEPT !.kind = kind, !.session_id = session])

SpecWrite == Init /\ [][NextWrite]_vars

\* Round trip of the tag list and the payload: tag lists of up to two
\* tags, among them the empty tag and a tag with a comma in it.
TagA == <<97>>
TagWithComma == <<97, Comma, 98>>
Tags == {TagA, TagWithComma, <<>>}
TagLists ==
  {None, Some(<<>>)} \cup {Some(<<t>>) : t \in Tags}
  \cup {Some(<<t, u>>) : t \in Tags, u \in Tags}

NextRoundTrip ==
  \/ GetObservability
  \/ \E data \in {FlatData, NestedData} :
       writeEvent("metric", data, [NoOptions EXCEPT !.sessionId = "S1"], NextMs)
  \/ \E tags \in TagLists :
       writeEvent("log", NestedData,
         [NoOptions EXCEPT !.sessionId = "S1", !.tags = tags], NextMs)
  \/ \E kind \in {Absent, "log"} :
       queryEvents([NoFilters EXCEPT !.kind = kind, !.session_id = "S1"])

SpecRoundTrip == Init /\ [][NextRoundTrip]_vars

\* The filters: events of two kinds, with either session or none, one
\* millisecond apart, and every combination of the five filters.

FilterChoices ==
  [kind : {Absent, "log"}, session_id : {Absent, "S1"},
   machine_id : {AbsentId, EnvId},
   start_ts : {NoNum, SomeNum(2)}, end_ts : {NoNum, SomeNum(2)},
   limit : {NoNum}, offset : {NoNum}]

NextFilter ==
  \/ GetObservability
  \/ \E c \in {<<"log", "S1">>, <<"log", "S2">>, <<"metric", "S1">>, <<"metric", Absent>>} :
       writeEvent(c[1], FlatData, [NoOptions EXCEPT !.sessionId = c[2]], NextMs)
  \/ \E filters \in FilterChoices : queryEvents(filters)

SpecFilter == Init /\ [][NextFilter]_vars

\* Ordering and pages: events of two kinds, some in the same millisecond
\* (with other random bytes), read with and without a kind, a limit and an
\* offset.
OtherBytesSameMs == [wait |-> 0, elapsed |-> 0, random |-> 1]

PageChoices ==
  [kind : {Absent, "log"}, session_id : {Absent}, machine_id : {AbsentId},
   start_ts : {NoNum}, end_ts : {NoNum},
   limit : {NoNum, SomeNum(1), SomeNum(2)},
   offset : {NoNum, SomeNum(1), SomeNum(2)}]

NextPage ==
  \/ GetObservability
  \/ \E kind \in {"log", "metric"}, env \in {NextMs, OtherBytesSameMs} :
       writeEvent(kind, FlatData, NoOptions, env)
  \/ \E filters \in PageChoices : queryEvents(filters)

SpecPage == Init /\ [][NextPage]_vars

\* The kinds: the typed writers of tool executions (before and after, with
\* and without options, in the next millisecond or in the same one), spans,
\* spawned agents and errors, the generic writer with payloads of the same
\* kinds, and a reader of session S1.
ToolOptionsChoices ==
  {NoToolOptions,
   [NoToolOptions EXCEPT !.sessionId = "S1"],
   [NoToolOptions EXCEPT !.sessionId = "S1", !.duration_ms = SomeNum(45)]}

GenericChoices ==
  {[kind |-> "constellation:tool_execute",
    data |-> <<<<"tool_name", Str("db-query")>>, <<"args", Obj(<<>>)>>,
               <<"context_session_id", Str("S1")>>, <<"phase", Str("during")>>>>],
   [kind |-> "span",
    data |-> <<<<"span_id", Str("P1")>>, <<"name", Str("load")>>,
               <<"status", Str("done")>>, <<"start_ts", Ts(0)>>>>],
   [kind |-> "constellation:agent_spawned",
    data |-> <<<<"agent_name", Str("explorer")>>,
               <<"parent_session_id", Str("S1")>>,
               <<"child_session_id", Str("S2")>>,
               <<"agent_mode", Str("primary")>>>>]}

NextKinds ==
  \/ GetObservability
  \/ \E phase \in {"before", "after"}, options \in ToolOptionsChoices,
        env \in {NextMs, OtherBytesSameMs} :
       writeToolExecute("db-query", Obj(<<>>), phase, options, env)
  \/ \E status \in {"started", "completed"} :
       writeSpan("P1", "load", status, NoSpanOptions, NextMs)
  \/ \E mode \in {Absent, "primary"} :
       writeAgentSpawned("explorer", "S1", "S2",
         [NoAgentOptions EXCEPT !.agentMode = mode], NextMs)
  \/ writeError(<<69>>, "boom", NoErrorOptions, NextMs)
  \/ \E c \in GenericChoices :
       writeEvent(c.kind, c.data, [NoOptions EXCEPT !.sessionId = "S1"], NextMs)
  \/ queryEvents([NoFilters EXCEPT !.session_id = "S1"])

SpecKinds == Init /\ [][NextKinds]_vars

\* The singleton: both accessors, for either directory and with the file
\* system failing or not, close, a writer and a reader, in one process.
NextSingleton ==
  \/ \E dataDir \in {DefaultDataDir, OtherDataDir} :
       InitializeObservability(dataDir)
  \/ GetObservability
  \/ \E dataDir \in {DefaultDataDir, OtherDataDir},
        fault \in {IdentityFault, DatabaseFault} :
       Accessor("initializeObservability", dataDir, fault)
  \/ \E fault \in {IdentityFault, DatabaseFault} :
       Accessor("getObservability", DefaultDataDir, fault)
  \/ Close
  \/ GetMachineId
  \/ writeEvent("metric", FlatData, NoOptions, NextMs)
  \/ queryEvents(NoFilters)

SpecSingleton == Init /\ [][NextSingleton]_vars

\* The tool executor: both phases, with and without a result and a
\* duration, among them the result null and the duration 0.
ToolResultChoices ==
  {[NoToolOptions EXCEPT !.sessionId = "S1", !.result = c[1], !.duration_ms = c[2]] :
     c \in {<<Undefined, NoNum>>, <<Null, SomeNum(0)>>, <<Str("ok"), SomeNum(45)>>,
            <<Undefined, SomeNum(0)>>, <<Str("ok"), NoNum>>}}

NextTool ==
  \/ GetObservability
  \/ \E phase \in {"before", "after"}, options \in ToolResultChoices :
       writeToolExecute("db-query", Obj(<<>>), phase, options, NextMs)
  \/ queryEvents([NoFilters EXCEPT !.session_id = "S1"])

SpecTool == Init /\ [][NextTool]_vars

\* Identity and restarts: a data directory that is fresh or holds an
\* identity file written by hand (a line with its newline), processes that
\* run one after the other on it, the identity file deleted at any time,
\* and a writer and a reader in each process.
FileByHand ==
  [exists |-> TRUE, lead |-> 0, id |-> [text |-> "workstation-7", hex |-> <<>>],
   trail |-> 1]

InitIdentity ==
  /\ clock = 0
  /\ envMachineId \in {NoId, EnvId}
  /\ machineIdFile \in {NoFile, FileByHand}
  /\ observabilityInstance = NoInstance
  /\ events = <<>>
  /\ written = <<>>
  /\ resolved = <<>>
  /\ ret = NoRet

NextIdentity ==
  \/ InitializeObservability(DefaultDataDir)
  \/ GetObservability
  \/ GetMachineId
  \/ Restart
  \/ RemoveIdentityFile
  \/ writeEvent("metric", FlatData, NoOptions, NextMs)
  \/ queryEvents(NoFilters)

SpecIdentity == InitIdentity /\ [][NextIdentity]_vars

\* ------------------------------------------------------------ claims
\* The operation of `ret` is a write: the generic writer or a typed one.
IsWrite(op) ==
  op \notin {"none", "queryEvents", "initializeObservability", "getObservability"}

\* C1: the ids one store instance returns are strictly increasing in call
\* order under string comparison, also within one millisecond.
C1_IdsStrictlyIncreasing ==
  \A i, j \in 1..Len(written) :
    i < j => StrLess(written[i].id, written[j].id)

\* C2: no two rows of the events table have the same event_id, whatever
\* writes succeeded or failed.
C2_EventIdIsKey ==
  \A i, j \in 1..Len(events) : i # j => events[i].event_id # events[j].event_id

\* A write has just failed on an id that is already in the table.
C2_DuplicateRefused ==
  /\ ret.op = "writeEvent"
  /\ ret.status = "throw"
  /\ ~observabilityInstance.closed
  /\ Len(events) >= 1

\* C3: no operation removes a stored row or changes one of its fields:
\* every step keeps the rows there are, in place, and at most adds rows
\* after them.
C3_AppendOnly ==
  [][/\ Len(events') >= Len(events)
     /\ SubSeq(events', 1, Len(events)) = events]_vars

\* Rows were written, read by a query, and the store was then closed.
C3_WrittenQueriedClosed ==
  /\ Len(events) >= 2
  /\ ret.op = "queryEvents"
  /\ ret.status = "ok"
  /\ Len(ret.rows) >= 2
  /\ observabilityInstance.closed

\* C4: an envelope a query returns equals the envelope that was written
\* under its id: tags, data and parent linkage included.
C4_RoundTrip ==
  (ret.op = "queryEvents" /\ ret.status = "ok") =>
    \A i \in 1..Len(ret.rows), j \in 1..Len(written) :
      ret.rows[i].event_id = written[j].id => ret.rows[i] = written[j].event

\* The envelope a reader is given for the stored event with this id.
StoredAs(id) ==
  EventOfRow(events[CHOOSE r \in 1..Len(events) : events[r].event_id = id])

IsStored(id) == \E r \in 1..Len(events) : events[r].event_id = id

\* Call j was given the id that the earlier call i returned as its parent.
Chained(i, j) ==
  /\ i < j
  /\ written[j].options.parentEventId = Some(written[i].id)

\* C5: when B was written with the id returned for A as parentEventId, A
\* is stored under that id and B is stored, and read back by any query,
\* with parent.event_id equal to it.
C5_CausalChain ==
  \A i, j \in 1..Len(written) :
    Chained(i, j) =>
      /\ IsStored(written[i].id)
      /\ IsStored(written[j].id)
      /\ StoredAs(written[j].id).parent.event_id = Some(written[i].id)
      /\ (ret.op = "queryEvents" /\ ret.status = "ok") =>
           \A k \in 1..Len(ret.rows) :
             ret.rows[k].event_id = written[j].id =>
               ret.rows[k].parent.event_id = Some(written[i].id)

\* B, chained to A, has been read back by a query, after a third write.
C5_ChainReadBack ==
  /\ Len(written) >= 3
  /\ Chained(1, 2)
  /\ ret.op = "queryEvents"
  /\ ret.status = "ok"
  /\ \E k \in 1..Len(ret.rows) : ret.rows[k].event_id = written[2].id

\* C6: a writeEvent call that returns adds exactly one row, under the id
\* it returns and with the kind, data, context and parent fields it was
\* given, and leaves the rows there were as they were.
C6_WriteAddsOne ==
  [][Len(written') = Len(written) + 1 =>
       LET call == written'[Len(written')]
       IN /\ ret'.status = "ok"
          /\ ret'.id = call.id
          /\ Len(events') = Len(events) + 1
          /\ SubSeq(events', 1, Len(events)) = events
          /\ Cardinality({r \in 1..Len(events') : events'[r].event_id = ret'.id}) = 1
          /\ \A r \in 1..Len(events') :
               events'[r].event_id = ret'.id =>
                 LET stored == EventOfRow(events'[r])
                 IN /\ stored.event.kind = call.kind
                    /\ stored.data = call.data
                    /\ stored.context.session_id = call.options.sessionId
                    /\ stored.context.actor = call.options.actor
                    /\ stored.context.phase = call.options.phase
                    /\ stored.parent.event_id = call.options.parentEventId
                    /\ stored.parent.trace_id = call.options.parentTraceId
                    /\ stored.parent.span_id = call.options.parentSpanId]_vars

\* A write with a session, an actor, a phase and a parent has returned, as
\* the second row of the table.
C6_FullWriteReturned ==
  /\ ret.op = "writeEvent"
  /\ ret.status = "ok"
  /\ Len(events) >= 2
  /\ written[Len(written)].options.actor = "planner"
  /\ written[Len(written)].options.parentEventId.some

\* A query has returned a list.
QueryReturned == ret.op = "queryEvents" /\ ret.status = "ok"

Paged(filters) == TruthyNum(filters.limit) \/ TruthyNum(filters.offset)

\* The envelope satisfies every filter that is supplied (truthy).
SatisfiesAll(e, filters) ==
  /\ TruthyStr(filters.kind) => e.event.kind = filters.kind
  /\ TruthyStr(filters.session_id) => e.context.session_id = filters.session_id
  /\ TruthyId(filters.machine_id) => e.machine.id = filters.machine_id
  /\ TruthyTs(filters.start_ts) => e.ts >= filters.start_ts.v
  /\ TruthyTs(filters.end_ts) => e.ts <= filters.end_ts.v

\* The ids of the events some list of a query with these filters holds.
IdsFound(filters) ==
  UNION {{rows[k].event_id : k \in 1..Len(rows)} : rows \in QueryResults(events, filters)}

ReturnedIds == {ret.rows[k].event_id : k \in 1..Len(ret.rows)}

\* C7: without limit and offset a query returns exactly the stored events
\* that satisfy every supplied filter, each once; kind and session_id
\* together give the intersection of what each gives alone.
C7_FiltersConjunctive ==
  (QueryReturned /\ ~Paged(ret.filters)) =>
    /\ \A k \in 1..Len(ret.rows) :
         IsStored(ret.rows[k].event_id) /\ SatisfiesAll(ret.rows[k], ret.filters)
    /\ \A r \in 1..Len(events) :
         SatisfiesAll(EventOfRow(events[r]), ret.filters) =>
           Cardinality({k \in 1..Len(ret.rows) :
                          ret.rows[k].event_id = events[r].event_id}) = 1
    /\ (TruthyStr(ret.filters.kind) /\ TruthyStr(ret.filters.session_id)
        /\ ret.filters = [NoFilters EXCEPT !.kind = ret.filters.kind,
                                           !.session_id = ret.filters.session_id])
       => ReturnedIds = IdsFound([NoFilters EXCEPT !.kind = ret.filters.kind])
                        \cap IdsFound([NoFilters EXCEPT !.session_id = ret.filters.session_id])

\* A query by kind and session has returned an event while the store also
\* holds an event of the kind in another session and an event of the
\* session with another kind.
C7_ProperIntersection ==
  /\ QueryReturned
  /\ TruthyStr(ret.filters.kind)
  /\ TruthyStr(ret.filters.session_id)
  /\ Len(ret.rows) >= 1
  /\ \E r \in 1..Len(events) :
       events[r].event_kind = ret.filters.kind
       /\ events[r].context_session_id # ret.filters.session_id
  /\ \E r \in 1..Len(events) :
       events[r].event_kind # ret.filters.kind
       /\ events[r].context_session_id = ret.filters.session_id

\* The filters but for limit and offset.
Unpaged(filters) == [filters EXCEPT !.limit = NoNum, !.offset = NoNum]

\* C8: a query with a limit, made right after the same query without limit
\* and offset on the same store, returns the part of that list from rank
\* offset + 1 to rank offset + limit.
C8_PageIsSliceOfFullList ==
  [][(/\ QueryReturned
      /\ ~Paged(ret.filters)
      /\ ret'.op = "queryEvents"
      /\ ret'.status = "ok"
      /\ TruthyNum(ret'.filters.limit)
      /\ Unpaged(ret'.filters) = ret.filters
      /\ events' = events)
     => LET skip == IF TruthyNum(ret'.filters.offset) THEN ret'.filters.offset.v ELSE 0
        IN ret'.rows = SubSeq(ret.rows, skip + 1,
                              Min(Len(ret.rows), skip + ret'.filters.limit.v))]_vars

\* C9: a query with no filter fields returns every stored event once; with
\* only a limit the first `limit` of them; with only an offset all but the
\* first `offset`; and it does not throw.
C9_NoFilterFields ==
  (ret.op = "queryEvents" /\ ~observabilityInstance.closed
   /\ Unpaged(ret.filters) = NoFilters) =>
    LET skip == IF ret.filters.offset.some THEN ret.filters.offset.v ELSE 0
        left == IF Len(events) > skip THEN Len(events) - skip ELSE 0
    IN /\ ret.status = "ok"
       /\ Len(ret.rows) = IF TruthyNum(ret.filters.limit)
                          THEN Min(ret.filters.limit.v, left) ELSE left
       /\ Cardinality(ReturnedIds) = Len(ret.rows)
       /\ \A id \in ReturnedIds : IsStored(id)

\* C10: in every list a query returns, ts never rises from one position to
\* a later one.
C10_DescendingTs ==
  QueryReturned =>
    \A i, j \in 1..Len(ret.rows) : i < j => ret.rows[i].ts >= ret.rows[j].ts

\* A list of three: a later event first, then two of the same millisecond.
C10_ThreeWithTie ==
  /\ QueryReturned
  /\ Len(ret.rows) >= 3
  /\ ret.rows[1].ts > ret.rows[2].ts
  /\ ret.rows[2].ts = ret.rows[3].ts

\* The place of the event with this id in the list the last query returned.
RankOf(id) == CHOOSE k \in 1..Len(ret.rows) : ret.rows[k].event_id = id

\* Calls i and i + 1 wrote a tool execution's "before" and then its "after"
\* event, for the same tool and the session.
BeforeThenAfter(i, session) ==
  /\ i + 1 <= Len(written)
  /\ written[i].kind = "constellation:tool_execute"
  /\ written[i + 1].kind = "constellation:tool_execute"
  /\ written[i].options.phase = "before"
  /\ written[i + 1].options.phase = "after"
  /\ written[i].options.sessionId = session
  /\ written[i + 1].options.sessionId = session
  /\ written[i].data[1] = written[i + 1].data[1]

\* C11: when a tool execution's "before" event and then its "after" event
\* are written for a session, a query by that session returns both, the
\* "after" event at an earlier place than the "before" event, also when
\* both were written in one millisecond.
C11_LaterWriteFirst ==
  (QueryReturned /\ ret.filters = [NoFilters EXCEPT !.session_id = "S1"]) =>
    \A i \in 1..Len(written) :
      BeforeThenAfter(i, "S1") =>
        /\ written[i].id \in ReturnedIds
        /\ written[i + 1].id \in ReturnedIds
        /\ RankOf(written[i + 1].id) < RankOf(written[i].id)

\* C12: start_ts and end_ts are inclusive bounds: a query returns no event
\* with ts below start_ts or above end_ts, and it returns every stored
\* event whose ts is start_ts, or is end_ts, and that the other filters let
\* through.
C12_InclusiveBounds ==
  (QueryReturned /\ ~Paged(ret.filters)) =>
    /\ \A k \in 1..Len(ret.rows) :
         /\ ret.filters.start_ts.some => ~(ret.rows[k].ts < ret.filters.start_ts.v)
         /\ ret.filters.end_ts.some => ~(ret.rows[k].ts > ret.filters.end_ts.v)
    /\ \A r \in 1..Len(events) :
         /\ (/\ ret.filters.start_ts.some
             /\ events[r].ts = ret.filters.start_ts.v
             /\ SatisfiesAll(EventOfRow(events[r]),
                             [ret.filters EXCEPT !.start_ts = NoNum]))
            => events[r].event_id \in ReturnedIds
         /\ (/\ ret.filters.end_ts.some
             /\ events[r].ts = ret.filters.end_ts.v
             /\ SatisfiesAll(EventOfRow(events[r]),
                             [ret.filters EXCEPT !.end_ts = NoNum]))
            => events[r].event_id \in ReturnedIds

\* A query with both bounds at one millisecond has returned the event of
\* that millisecond, from a store that also holds an earlier and a later
\* event.
C12_EventOnBothBounds ==
  /\ QueryReturned
  /\ ret.filters.start_ts.some
  /\ ret.filters.end_ts = ret.filters.start_ts
  /\ Len(ret.rows) = 1
  /\ ret.rows[1].ts = ret.filters.start_ts.v
  /\ \E r \in 1..Len(events) : events[r].ts < ret.filters.start_ts.v
  /\ \E r \in 1..Len(events) : events[r].ts > ret.filters.end_ts.v

\* The identity file has not been removed between the i-th construction and
\* the j-th: none of them found the file gone that the one before had left.
FileKept(i, j) ==
  \A k \in (i + 1)..j : resolved[k - 1].after.exists => resolved[k].before.exists

\* C13: without a MACHINE_ID override, all constructions against the data
\* directory resolve the same machine id, over restarts too, as long as the
\* identity file is not removed.
C13_IdentityStable ==
  \A i, j \in 1..Len(resolved) :
    (/\ i < j
     /\ \A k \in i..j : resolved[k].override = NoId
     /\ FileKept(i, j))
    => resolved[j].id = resolved[i].id

\* Three processes in a row on a directory that was fresh: the first
\* generated the id, the next two found the file.
C13_ThreeRuns ==
  /\ Len(resolved) >= 3
  /\ envMachineId = NoId
  /\ ~resolved[1].before.exists
  /\ FileKept(1, 3)
  /\ observabilityInstance.created

\* C14: when the identity file has been deleted, the next construction
\* without override generates and persists an id that differs from the id
\* the file held before.
C14_NewIdDiffers ==
  \A k \in 2..Len(resolved) :
    (/\ resolved[k].override = NoId
     /\ resolved[k - 1].after.exists
     /\ ~resolved[k].before.exists)
    => /\ resolved[k].after.exists
       /\ trim(resolved[k].after) = resolved[k].id
       /\ resolved[k].id # trim(resolved[k - 1].after)

\* C15: a set MACHINE_ID is the resolved id, file or no file, and the file
\* is left as it was (absent or with its content); with MACHINE_ID unset
\* and the file there, the id is the trimmed content of the file.
C15_Precedence ==
  \A k \in 1..Len(resolved) :
    /\ resolved[k].override # NoId =>
         /\ resolved[k].id = resolved[k].override
         /\ resolved[k].after = resolved[k].before
    /\ (resolved[k].override = NoId /\ resolved[k].before.exists) =>
         resolved[k].id = trim(resolved[k].before)

\* A construction under a set MACHINE_ID on a directory that holds an
\* identity file with another id.
C15_OverrideOverFile ==
  /\ Len(resolved) >= 1
  /\ resolved[Len(resolved)].override # NoId
  /\ resolved[Len(resolved)].before.exists
  /\ trim(resolved[Len(resolved)].before) # resolved[Len(resolved)].override
  /\ observabilityInstance.machineId = EnvId

\* C16: a construction changes the identity file only when there is no
\* override and no file: it then creates the file with the id it returns;
\* in every other case the file is left as it was, and a file that exists
\* is never written over.
C16_FileWrittenOnlyOnGeneration ==
  \A k \in 1..Len(resolved) :
    IF resolved[k].override = NoId /\ ~resolved[k].before.exists
    THEN resolved[k].after = FileOf(resolved[k].id)
    ELSE resolved[k].after = resolved[k].before

\* A file written by hand was found by one construction, and a later one
\* generated an id after the file was removed.
C16_FoundThenGenerated ==
  /\ Len(resolved) >= 2
  /\ resolved[1].override = NoId
  /\ resolved[1].before = FileByHand
  /\ ~resolved[2].before.exists
  /\ machineIdFile.exists

\* The names of the members of a payload, and the value of one of them.
Keys(data) == {data[i][1] : i \in 1..Len(data)}
Field(data, key) == data[CHOOSE i \in 1..Len(data) : data[i][1] = key][2]

\* The fields the per-kind table marks as required.
RequiredFields(kind) ==
  IF kind = "constellation:tool_execute"
  THEN {"tool_name", "args", "context_session_id", "phase"}
  ELSE IF kind = "constellation:agent_spawned"
  THEN {"agent_name", "parent_session_id", "child_session_id", "agent_mode"}
  ELSE IF kind = "error"
  THEN {"error_type", "message", "context_session_id", "retryable", "transient"}
  ELSE IF kind = "span"
  THEN {"span_id", "name", "status", "start_ts"}
  ELSE {}

TypedWriters == {"writeToolExecute", "writeAgentSpawned", "writeError", "writeSpan"}

\* C17: the event a typed writer has just persisted holds, in its stored
\* payload, every field that is required for its kind, whatever arguments
\* the writer was called with.
C17_RequiredFieldsStored ==
  (ret.op \in TypedWriters /\ ret.status = "ok") =>
    RequiredFields(StoredAs(ret.id).event.kind) \subseteq Keys(StoredAs(ret.id).data)

\* The values the three enumerated fields may take.
AllowedValues(kind) ==
  IF kind = "constellation:tool_execute"
  THEN [field |-> "phase", values |-> {"before", "after"}]
  ELSE IF kind = "span"
  THEN [field |-> "status", values |-> {"started", "completed", "failed"}]
  ELSE IF kind = "constellation:agent_spawned"
  THEN [field |-> "agent_mode", values |-> {"subagent", "primary"}]
  ELSE [field |-> "", values |-> {}]

\* C18: every stored tool execution has data.phase "before" or "after",
\* every stored span data.status "started", "completed" or "failed", every
\* stored spawned agent data.agent_mode "subagent" or "primary", whichever
\* writer stored it.
C18_EnumeratedFields ==
  \A r \in 1..Len(events) :
    LET e == EventOfRow(events[r])
        allowed == AllowedValues(e.event.kind)
    IN allowed.field # "" =>
         /\ allowed.field \in Keys(e.data)
         /\ Field(e.data, allowed.field).t = "str"
         /\ Field(e.data, allowed.field).s \in allowed.values

\* C19: constructing the store on a data directory leaves the rows of the
\* table as they are, and a query without filters by the new instance
\* returns every event that was written there, as it was written.
C19_InitKeepsEvents ==
  /\ [][(~observabilityInstance.created /\ observabilityInstance'.created)
        => events' = events]_vars
  /\ [](\A j \in 1..Len(written) :
          /\ IsStored(written[j].id)
          /\ StoredAs(written[j].id) = written[j].event
          /\ (QueryReturned /\ ret.filters = NoFilters) =>
               \E k \in 1..Len(ret.rows) : ret.rows[k] = written[j].event)

\* A process that was started on a directory with two events in it has
\* queried and got them.
C19_QueriedAfterRestart ==
  /\ Len(resolved) >= 2
  /\ resolved[Len(resolved)].rows >= 2
  /\ observabilityInstance.created
  /\ QueryReturned
  /\ Len(ret.rows) >= 2

\* C20: when the INSERT of a write fails, the call throws and returns no
\* id, and the table is left as it was: no row added, none changed, no
\* second attempt under another id.
C20_FailedAppend ==
  [][(IsWrite(ret'.op) /\ ret'.status = "throw")
     => /\ ret'.id = <<>>
        /\ events' = events
        /\ written' = written]_vars

\* A write has failed on the id of a stored event, after two writes that
\* went through.
C20_SecondIdRepeated ==
  /\ ret.op = "writeEvent"
  /\ ret.status = "throw"
  /\ ~observabilityInstance.closed
  /\ Len(events) = 2
  /\ Len(written) = 2
  /\ clock = events[2].ts

\* C21: once the instance is closed, a write call (writeEvent or a typed
\* writer) throws and returns no id, and no step adds, removes or changes a
\* stored event.
C21_WritesFailAfterClose ==
  [][observabilityInstance.closed =>
       /\ events' = events
       /\ written' = written
       /\ (((clock' # clock \/ ret' # ret) /\ IsWrite(ret'.op)) =>
            (ret'.status = "throw" /\ ret'.id = <<>>))]_vars

\* A typed writer has thrown on a closed store that holds two events.
C21_TypedWriteOnClosed ==
  /\ observabilityInstance.closed
  /\ ret.op = "writeToolExecute"
  /\ ret.status = "throw"
  /\ Len(events) >= 2

Accessors == {"initializeObservability", "getObservability"}

\* C22: through the accessors a process constructs the store at most once;
\* every accessor call that returns leaves the singleton set, to the one
\* instance, which stays bound to the directory of the call that
\* constructed it whatever directory later calls name.
C22_OneInstance ==
  /\ [](Cardinality({k \in 1..Len(resolved) : resolved[k].ok}) <= 1)
  /\ []((ret.op \in Accessors /\ ret.status = "ok") =>
          observabilityInstance.created)
  /\ [][/\ ((~observabilityInstance.created /\ observabilityInstance'.created)
            => observabilityInstance'.dataDir = ret'.dataDir)
         /\ (observabilityInstance.created
            => /\ observabilityInstance'.created
               /\ observabilityInstance'.dataDir = observabilityInstance.dataDir
               /\ observabilityInstance'.machineId = observabilityInstance.machineId
               /\ resolved' = resolved)]_vars

\* initializeObservability has returned for a directory other than the one
\* the store, which holds an event, is bound to.
C22_SecondDirIgnored ==
  /\ ret.op = "initializeObservability"
  /\ ret.status = "ok"
  /\ ret.dataDir # observabilityInstance.dataDir
  /\ Len(events) >= 1

\* C23: every event a query returns equals, in every envelope field, the
\* envelope of a write that returned its id: no list holds part of a write
\* or a mix of two.
C23_ReturnedEventsAreWrites ==
  QueryReturned =>
    \A k \in 1..Len(ret.rows) :
      \E j \in 1..Len(written) : ret.rows[k] = written[j].event

\* C24: a write that has returned its id is stored, and every later query
\* without limit and offset whose filters its event satisfies returns it.
C24_WritesVisibleAtOnce ==
  /\ \A j \in 1..Len(written) : IsStored(written[j].id)
  /\ (QueryReturned /\ ~Paged(ret.filters)) =>
       \A j \in 1..Len(written) :
         SatisfiesAll(written[j].event, ret.filters) => written[j].id \in ReturnedIds

\* A query by kind and session has returned the event of the last of three
\* writes.
C24_LastWriteReturned ==
  /\ QueryReturned
  /\ ret.filters.kind = "log"
  /\ ret.filters.session_id = "S1"
  /\ Len(written) = 3
  /\ written[3].id \in ReturnedIds
  /\ Len(ret.rows) < 3

\* The payload has the field exactly when the value is defined, and then
\* with that value.
HasExactly(data, key, value) ==
  IF value = Undefined
  THEN key \notin Keys(data)
  ELSE key \in Keys(data) /\ Field(data, key) = value

\* C25: the event of writeToolExecute, as written and as read back, has no
\* result and no duration_ms when the phase is "before", and for "after"
\* has each exactly when the caller gave a defined value, 0 and null
\* included.
C25_ResultAndDurationAfterOnly ==
  \A j \in 1..Len(written) :
    written[j].op = "writeToolExecute" =>
      LET a == written[j].args
          result == IF a.phase = "after" THEN a.options.result ELSE Undefined
          duration == IF a.phase = "after" THEN OfNum(a.options.duration_ms)
                      ELSE Undefined
      IN \A data \in {written[j].event.data, StoredAs(written[j].id).data} :
           /\ HasExactly(data, "result", result)
           /\ HasExactly(data, "duration_ms", duration)

\* A query has returned a "before" event whose caller gave a result and a
\* duration, and an "after" event with the duration 0 and the result null.
C25_BeforeAndAfterRead ==
  /\ QueryReturned
  /\ Len(ret.rows) = 2
  /\ \E i, j \in 1..Len(written) :
       /\ written[i].args.phase = "before"
       /\ written[i].args.options.duration_ms = SomeNum(45)
       /\ written[i].args.options.result = Str("ok")
       /\ written[j].args.phase = "after"
       /\ written[j].args.options.duration_ms = SomeNum(0)
       /\ written[j].args.options.result = Null
       /\ {written[i].id, written[j].id} = ReturnedIds

\* C29: when the construction inside an accessor fails, the accessor throws
\* and the singleton stays unset; an accessor call that returns from the
\* unset state has constructed a new, open store.
C29_FailedConstruction ==
  /\ []((ret.op \in Accessors /\ ret.status = "throw") =>
          observabilityInstance = NoInstance)
  /\ [][(~observabilityInstance.created /\ ret'.op \in Accessors
         /\ ret'.status = "ok" /\ ret' # ret)
        => /\ observabilityInstance'.created
           /\ ~observabilityInstance'.closed
           /\ Len(resolved') = Len(resolved) + 1
           /\ resolved'[Len(resolved')].ok]_vars

\* A construction failed at the database, after the identity file was
\* written, and the next accessor call constructed the store.
C29_ConstructedAfterFailure ==
  /\ Len(resolved) >= 2
  /\ ~resolved[1].ok
  /\ resolved[1].after.exists
  /\ resolved[2].ok
  /\ observabilityInstance.created

\* C30: close() leaves the singleton set: from then on the accessors return
\* the closed instance, and no write and no query on it succeeds.
C30_ClosedForGood ==
  [][observabilityInstance.closed =>
       /\ observabilityInstance' = observabilityInstance
       /\ (ret'.op \in Accessors => ret'.status = "ok")
       /\ (((IsWrite(ret'.op) \/ ret'.op = "queryEvents") /\ ret' # ret)
            => ret'.status = "throw")]_vars

\* getObservability has returned the closed instance of a store that holds
\* an event.
C30_ClosedInstanceReturned ==
  /\ observabilityInstance.closed
  /\ ret.op = "getObservability"
  /\ ret.status = "ok"
  /\ Len(events) >= 1

\* The identity of a running store: the MACHINE_ID setting and the identity
\* file change while one instance writes and reads.
NextRunning ==
  \/ GetObservability
  \/ \E id \in {NoId, EnvId} : SetMachineIdEnv(id)
  \/ RemoveIdentityFile
  \/ ReplaceIdentityFile(FileByHand)
  \/ GetMachineId
  \/ writeEvent("metric", FlatData, NoOptions, NextMs)
  \/ \E machine \in {AbsentId, EnvId} :
       queryEvents([NoFilters EXCEPT !.machine_id = machine])

SpecRunning == InitIdentity /\ [][NextRunning]_vars

\* C26: every event an instance writes carries, as written and as read
\* back, the machine id getMachineId() returns for it, which no change of
\* the MACHINE_ID setting or of the identity file after the construction
\* alters.
C26_MachineIdFixed ==
  /\ [](\A j \in 1..Len(written) :
         /\ written[j].event.machine.id = observabilityInstance.machineId
         /\ StoredAs(written[j].id).machine.id = observabilityInstance.machineId)
  /\ [][observabilityInstance.created =>
          observabilityInstance'.machineId = observabilityInstance.machineId]_vars

\* An event was written after the setting had changed, another after the
\* file had, and a query returned both.
C26_WrittenAfterChanges ==
  /\ QueryReturned
  /\ Len(ret.rows) = Len(written)
  /\ \E i, j \in 1..Len(written) :
       /\ written[i].setting # resolved[1].override
       /\ written[j].setting = resolved[1].override
  /\ machineIdFile # resolved[1].after

\* Sessions: every typed writer, for one of two sessions or for none, an
\* agent spawned from either session into the other, and a reader of each
\* session.
MaxSessionEvents == 2

SessionWrites ==
  {"tool:S1", "tool:none", "hook:S2", "skill:S1", "command:S2", "plugin:S1",
   "error:S2", "metric:S1", "span:S2", "start:S1", "end:S2", "summary:S1",
   "agent:S1:S2", "agent:S2:S1"}

SessionWrite(c) ==
  CASE c = "tool:S1" ->
         writeToolExecute("db-query", Obj(<<>>), "before",
           [NoToolOptions EXCEPT !.sessionId = "S1"], NextMs)
    [] c = "tool:none" ->
         writeToolExecute("db-query", Obj(<<>>), "before", NoToolOptions, NextMs)
    [] c = "hook:S2" ->
         writeHookFired("pre-commit", "git",
           [NoHookOptions EXCEPT !.sessionId = "S2"], NextMs)
    [] c = "skill:S1" ->
         writeSkillLoaded("review", "skills/review.md",
           [NoSkillOptions EXCEPT !.sessionId = "S1"], NextMs)
    [] c = "command:S2" ->
         writeCommandExecuted("deploy",
           [NoCommandOptions EXCEPT !.sessionId = "S2"], NextMs)
    [] c = "plugin:S1" ->
         writePluginEvent("git", "loaded",
           [NoPluginOptions EXCEPT !.sessionId = "S1"], NextMs)
    [] c = "error:S2" ->
         writeError(<<69>>, "boom",
           [NoErrorOptions EXCEPT !.sessionId = "S2"], NextMs)
    [] c = "metric:S1" ->
         writeMetric("latency", 12, "ms",
           [NoMetricOptions EXCEPT !.sessionId = "S1"], NextMs)
    [] c = "span:S2" ->
         writeSpan("P1", "load", "started",
           [NoSpanOptions EXCEPT !.sessionId = "S2"], NextMs)
    [] c = "start:S1" -> writeSessionStart("S1", NoSessionStartOptions, NextMs)
    [] c = "end:S2" -> writeSessionEnd("S2", NoSessionEndOptions, NextMs)
    [] c = "summary:S1" ->
         writeSessionSummary("S1", "done", NoSummaryOptions, NextMs)
    [] c = "agent:S1:S2" ->
         writeAgentSpawned("explorer", "S1", "S2", NoAgentOptions, NextMs)
    [] c = "agent:S2:S1" ->
         writeAgentSpawned("explorer", "S2", "S1", NoAgentOptions, NextMs)

NextSessions ==
  \/ GetObservability
  \/ /\ Len(events) < MaxSessionEvents
     /\ \E c \in SessionWrites : SessionWrite(c)
  \/ \E session \in {"S1", "S2"} :
       queryEvents([NoFilters EXCEPT !.session_id = session])

SpecSessions == Init /\ [][NextSessions]_vars

\* The payload field that names the session, per typed writer.
SessionField(op) ==
  IF op \in {"writeSessionStart", "writeSessionEnd", "writeSessionSummary"}
  THEN "session_id"
  ELSE IF op = "writeAgentSpawned" THEN "parent_session_id"
  ELSE "context_session_id"

Defined(data, key) == key \in Keys(data) /\ Field(data, key) # Undefined

\* C27: for every typed writer the envelope's context.session_id, as written
\* and as read back, is the session its payload names (context_session_id,
\* session_id, or parent_session_id for agent_spawned) whenever the payload
\* has that field; a query by session_id returns the events whose
\* context.session_id is that session, and so not the agent_spawned event
\* of which the session is the child and not the parent.
C27_FiledUnderPayloadSession ==
  /\ \A j \in 1..Len(written) :
       \A e \in {written[j].event, StoredAs(written[j].id)} :
         Defined(e.data, SessionField(written[j].op)) =>
           Str(e.context.session_id) = Field(e.data, SessionField(written[j].op))
  /\ (QueryReturned /\ TruthyStr(ret.filters.session_id)) =>
       /\ ReturnedIds =
            {written[j].id : j \in
               {k \in 1..Len(written) :
                  written[k].event.context.session_id = ret.filters.session_id}}
       /\ \A j \in 1..Len(written) :
            (/\ written[j].op = "writeAgentSpawned"
             /\ written[j].args.childSessionId = ret.filters.session_id
             /\ written[j].args.parentSessionId # ret.filters.session_id)
            => written[j].id \notin ReturnedIds

\* A query by session S2 has returned a session_end event and not the
\* event of the agent spawned from S1 into S2.
C27_ChildQueryWithoutSpawn ==
  /\ QueryReturned
  /\ ret.filters.session_id = "S2"
  /\ Len(written) = 2
  /\ \E j \in 1..2 :
       /\ written[j].op = "writeAgentSpawned"
       /\ written[j].args.childSessionId = "S2"
       /\ written[j].id \notin ReturnedIds
  /\ \E j \in 1..2 :
       written[j].op = "writeSessionEnd" /\ written[j].id \in ReturnedIds

\* Falsy filters: events of two kinds, with a session or none, read with
\* filters that are given but empty, a limit of 0 or 1 and an offset of 0.
FalsyChoices ==
  [kind : {"", "log"}, session_id : {"", Absent},
   machine_id : {NoId, AbsentId},
   start_ts : {EmptyTs, NoNum}, end_ts : {EmptyTs, SomeNum(2)},
   limit : {SomeNum(0), SomeNum(1)}, offset : {SomeNum(0), NoNum}]

NextFalsy ==
  \/ GetObservability
  \/ \E c \in {<<"log", "S1">>, <<"metric", Absent>>} :
       writeEvent(c[1], FlatData, [NoOptions EXCEPT !.sessionId = c[2]], NextMs)
  \/ \E filters \in FalsyChoices : queryEvents(filters)

SpecFalsy == Init /\ [][NextFalsy]_vars

\* The stored rows that the filters other than the empty ones admit:
\* a kind, a session or a machine that is a non-empty string, a bound
\* that is a timestamp.
Admitted(filters) ==
  {r \in 1..Len(events) :
     /\ filters.kind \notin {Absent, ""} => events[r].event_kind = filters.kind
     /\ filters.session_id \notin {Absent, ""} =>
          events[r].context_session_id = filters.session_id
     /\ filters.machine_id \notin {AbsentId, NoId} =>
          events[r].machine_id = filters.machine_id
     /\ filters.start_ts \notin {NoNum, EmptyTs} =>
          events[r].ts >= filters.start_ts.v
     /\ filters.end_ts \notin {NoNum, EmptyTs} =>
          events[r].ts <= filters.end_ts.v}

\* C28: a filter that is given but falsy restricts nothing: a query whose
\* limit is 0 (or absent) returns every stored event the non-empty filters
\* admit, each once, and a query with a limit and the offset 0 (or none)
\* returns the first events of that list, from the latest on.
C28_FalsyFiltersAbsent ==
  QueryReturned =>
    LET admitted == {events[r].event_id : r \in Admitted(ret.filters)}
    IN /\ ReturnedIds \subseteq admitted
       /\ Cardinality(ReturnedIds) = Len(ret.rows)
       /\ ~TruthyNum(ret.filters.limit) => ReturnedIds = admitted
       /\ TruthyNum(ret.filters.limit) =>
            /\ Len(ret.rows) = Min(ret.filters.limit.v, Cardinality(admitted))
            /\ \A k \in 1..Len(ret.rows), r \in Admitted(ret.filters) :
                 events[r].event_id \notin ReturnedIds =>
                   events[r].ts <= ret.rows[k].ts

\* A query whose every filter is given and empty, with limit 0 and offset
\* 0, has returned the three stored events, of two kinds.
C28_AllGivenAllEmpty ==
  /\ QueryReturned
  /\ ret.filters = [kind |-> "", session_id |-> "", machine_id |-> NoId,
                    start_ts |-> EmptyTs, end_ts |-> EmptyTs,
                    limit |-> SomeNum(0), offset |-> SomeNum(0)]
  /\ Len(ret.rows) = 3
  /\ \E i, j \in 1..3 : ret.rows[i].event.kind # ret.rows[j].event.kind

====
